---- MODULE Spec2Model ----
(***************************************************************************)
(* Model of the sfs-cli daemon: internal/daemon/daemon.go, func Run and    *)
(* create_watcher, with the debounce timers scheduled by time.AfterFunc.   *)
(*                                                                         *)
(* Paths are sequences of one-character strings, so that strings.HasSuffix *)
(* and filepath.Base / filepath.Dir are computed, not assumed.             *)
(*                                                                         *)
(* Time is in milliseconds and advances in steps of TickStep; events       *)
(* handled between two ticks are less than TickStep apart.  A watch event  *)
(* is handled when it arrives.  A timer that is due fires before the clock *)
(* moves on, but in any order with the events of the same instant; an      *)
(* upload call lasts any number of ticks.                                  *)
(*                                                                         *)
(* Run is followed through its positions: its startup (l.70-113) is one    *)
(* step, then it waits in the select, handles one case in one step, and on *)
(* a successful reload stands between fileWatcher.Close() and              *)
(* create_watcher(), where timers still run.  When Run has returned, or    *)
(* os.Exit was called, the process is over and nothing runs any more.      *)
(*                                                                         *)
(* Spec is the program with the clock in steps of the quiet period and a   *)
(* signal received in the step it arrives; SpecFine has the clock in half  *)
(* steps; SpecLive has signals that wait in sigChan, and fairness;          *)
(* SpecLock has Lock and Unlock of debounceMutex in separate steps;        *)
(* SpecClient is the commands that set the configuration and build an API  *)
(* client.                                                                 *)
(***************************************************************************)
EXTENDS Integers, Sequences, FiniteSets, TLC

VARIABLES
    loopPc,          \* position of Run: "select" (l.117), "rebuild" (between l.136 and l.137),
                     \* "continue" (end of a case, back to l.116), "returned",
                     \* "start" (l.70), "exited" (os.Exit)
    config,          \* viper's in-memory configuration
    watchers,        \* every fsnotify.Watcher made by create_watcher, by creation order
    fileWatcher,     \* the local variable fileWatcher of Run: index into watchers
    deferredWatcher, \* the receiver captured by `defer fileWatcher.Close()` at l.111
    configWatcherOpen, \* configWatcher made and not yet closed
    configWatched,   \* the directories configWatcher was subscribed to (l.93)
    exitStatus,      \* how the process ended, if it has
    sigChan,         \* the signals buffered in sigChan (l.101: capacity 1)
    debounceTimers,  \* map[string]*time.Timer: path -> index into timers
    timers,          \* every *time.Timer made by time.AfterFunc, by creation order
    now,             \* wall clock, ms
    lastEvent,       \* the event of the current iteration of the loop
    debounceMutex,   \* who holds debounceMutex (l.26)
    client           \* the *Client of the last api.NewClient() of a command

vars == <<loopPc, config, watchers, fileWatcher, deferredWatcher, configWatcherOpen, configWatched, exitStatus, sigChan,
          debounceTimers, timers, now, lastEvent, debounceMutex, client>>

----------------------------------------------------------------------------
(* Bounds *)

TickStep == 500
MaxTime == 1000
MaxTimers == 3
MaxWatchers == 2
FineStep == 250

(* Program constants *)

debounceDelay == 500

----------------------------------------------------------------------------
(* Strings as character sequences *)

HasSuffix(s, suffix) ==
    /\ Len(s) >= Len(suffix)
    /\ SubSeq(s, Len(s) - Len(suffix) + 1, Len(s)) = suffix

HasPrefix(s, prefix) ==
    /\ Len(s) >= Len(prefix)
    /\ SubSeq(s, 1, Len(prefix)) = prefix

\* index of the last "/" of a path, 0 if there is none
LastSlash(s) ==
    LET idx == {i \in 1..Len(s) : s[i] = "/"}
    IN IF idx = {} THEN 0 ELSE CHOOSE i \in idx : \A j \in idx : j <= i

\* filepath.Base of a clean absolute path
Base(s) == SubSeq(s, LastSlash(s) + 1, Len(s))

\* filepath.Dir of a clean absolute path below the root
Dir(s) == SubSeq(s, 1, LastSlash(s) - 1)

\* fsnotify.Op is a bit set; Has reports whether all bits of h are set in o
Has(o, h) == h \subseteq o

----------------------------------------------------------------------------
(* The file system the daemon runs on *)

DirA == <<"/", "a">>
DirAS == <<"/", "a", "/", "s">>
DirAST == <<"/", "a", "/", "s", "/", "t">>
DirAU == <<"/", "a", "/", "u">>
DirAUD == <<"/", "a", "/", "u", "/", "d">>
DirB == <<"/", "b">>
DirC == <<"/", "c">>

FsDirs == {DirA, DirAS, DirAST, DirAU, DirAUD, DirB, DirC}

\* directories the daemon has no permission to read
Unreadable == {DirAU}

\* roots a configuration can name that are no directory, beside a regular
\* file: a path that does not exist, and a relative path while the working
\* directory is gone
DirN == <<"/", "n">>
DirRel == <<"r">>

FileA == <<"/", "a", "/", "f">>
FileB == <<"/", "b", "/", "f">>
FileC == <<"/", "c", "/", "f">>
FileBackup == <<"/", "b", "/", "f", "~">>
FileSwap == <<"/", "b", "/", "f", ".", "s", "w", "p">>

FsFiles == {FileA, FileB, FileC, FileBackup, FileSwap}

\* the names a watch event can carry
EventPaths == FsFiles \cup {DirAS}

Ops == {{"Write"}, {"Create"}, {"Remove"}, {"Rename"}, {"Chmod"}, {"Create", "Write"}}

\* os.Stat(name) at the time the event is handled: the entry may be gone by then
Stat(name) == IF name \in FsDirs THEN {"dir"} ELSE {"file", "err"}

\* the configuration file and the entries of its directory
configDir == <<"/", "h">>
configPath == <<"/", "h", "/", "c">>
configFileName == Base(configPath)
ConfigEventNames == {configPath, <<"/", "h", "/", "x">>}

\* config.go l.35: the default of api_url
DefaultURL == <<"h", "t", "t", "p", "s", ":", "/", "/", "l", "o", "c", "a", "l", "h", "o", "s", "t">>

\* what InitConfig can find on disk
DefaultConfig == [watch_dirs |-> {}, api_url |-> DefaultURL, api_key |-> ""]
ConfigAB == [watch_dirs |-> {DirA, DirB, DirN}, api_url |-> DefaultURL, api_key |-> "k"]
ConfigBC == [watch_dirs |-> {DirB, DirC}, api_url |-> DefaultURL, api_key |-> "k"]
ConfigNoKey == [watch_dirs |-> {DirN, DirRel, FileA}, api_url |-> DefaultURL, api_key |-> ""]
Malformed == [status |-> "malformed", cfg |-> DefaultConfig]
Missing == [status |-> "missing", cfg |-> DefaultConfig]
Readable(cfg) == [status |-> "ok", cfg |-> cfg]
NotRead == [status |-> "none", cfg |-> DefaultConfig]
DiskStates == {Malformed, Missing, Readable(ConfigBC), Readable(ConfigNoKey)}

----------------------------------------------------------------------------
(* internal/config *)

InitConfigFails_never(disk) == FALSE

\* InitConfig reports an error only when the file is there and cannot be read
InitConfigFails(disk) == disk.status = "malformed"

\* the in-memory configuration after InitConfig: viper keeps what it had when
\* ReadInConfig fails or finds no file
InitConfig(cfg, disk) == IF disk.status = "ok" THEN disk.cfg ELSE cfg

GetWatchDirs(cfg) == cfg.watch_dirs

\* api.NewClient fails when no API key is configured
NewClientFails(cfg) == cfg.api_key = ""

----------------------------------------------------------------------------
(* internal/api: the client built from the configuration *)

\* strings.Index: where sub first occurs in s, 0 when it does not
Index(s, sub) ==
    LET at == {i \in 1..(Len(s) - Len(sub) + 1) : SubSeq(s, i, i + Len(sub) - 1) = sub}
    IN IF at = {} THEN 0 ELSE CHOOSE i \in at : \A j \in at : i <= j

\* strings.Contains
Contains(s, sub) == Index(s, sub) # 0

SchemeSep == <<":", "/", "/">>
Localhost == <<"l", "o", "c", "a", "l", "h", "o", "s", "t">>
Loopback == <<"1", "2", "7", ".", "0", ".", "0", ".", "1">>

\* the values of api_url: scheme, host, port and path
Schemes == {<<"h", "t", "t", "p">>, <<"h", "t", "t", "p", "s">>}
Hosts == {Localhost, Loopback,
          <<"1", "9", "2", ".", "1", "6", "8", ".", "0", ".", "3">>,
          <<"a", "p", "i", ".", "e", "x", "a", "m", "p", "l", "e", ".", "c", "o", "m">>,
          <<"t", "e", "s", "t", ".", "l", "o", "c", "a", "l", "h", "o", "s", "t">>,
          <<"l", "o", "c", "a", "l", "h", "o", "s", "t", ".", "e", "v", "i", "l", ".", "c", "o", "m">>,
          <<"1", "2", "7", ".", "0", ".", "0", ".", "1", "0">>}
Ports == {<<>>, <<":", "8", "0", "0", "0">>}
UrlPaths == {<<>>, <<"/", "a", "p", "i">>}
URLs == {s \o SchemeSep \o h \o p \o q : s \in Schemes, h \in Hosts, p \in Ports, q \in UrlPaths}
            \cup {Localhost \o <<":", "8", "0", "0", "0">>}

\* url.Parse(apiURL).Hostname(): the authority runs from "://" to the next
\* "/", and the host name is the authority without its port
Hostname(url) ==
    LET sep == Index(url, SchemeSep)
        rest == SubSeq(url, sep + Len(SchemeSep), Len(url))
        slash == Index(rest, <<"/">>)
        authority == IF slash = 0 THEN rest ELSE SubSeq(rest, 1, slash - 1)
        colon == Index(authority, <<":">>)
    IN IF sep = 0 THEN <<>>
       ELSE IF colon = 0 THEN authority
       ELSE SubSeq(authority, 1, colon - 1)

\* no client was asked for yet
NoClient == [err |-> FALSE, made |-> FALSE, BaseURL |-> <<>>, InsecureSkipVerify |-> FALSE]

\* l.72: the test that decides whether certificates are verified
isLocalhost(apiURL) ==
    Contains(apiURL, SchemeSep \o Localhost) \/ Contains(apiURL, SchemeSep \o Loopback)

\* l.61-85: the client NewClient returns, or its error
NewClient(cfg) ==
    IF NewClientFails(cfg)
    THEN [err |-> TRUE, made |-> FALSE, BaseURL |-> <<>>, InsecureSkipVerify |-> FALSE]
    ELSE [err |-> FALSE, made |-> TRUE, BaseURL |-> cfg.api_url,
          InsecureSkipVerify |-> isLocalhost(cfg.api_url)]

----------------------------------------------------------------------------
(* create_watcher *)

\* the entries of a directory
Children(dir) == {e \in FsDirs \cup FsFiles : Dir(e) = dir}

WalkDir_stopsOnError(root) ==
    IF \E d \in Unreadable : d = root \/ HasPrefix(d, root \o <<"/">>)
    THEN {}
    ELSE {e \in FsDirs \cup FsFiles : e = root \/ HasPrefix(e, root \o <<"/">>)}

\* filepath.WalkDir(absDir, fn), l.52-65: the entries for which fn is called
\* without an error.  A root that does not exist is reported with an error
\* only; a directory that cannot be read is reported once without an error
\* and once with the error of reading it, and the walk goes on with its
\* siblings, fn returning nil in every case.
RECURSIVE WalkDir(_)
WalkDir(root) ==
    IF root \notin FsDirs \cup FsFiles THEN {}
    ELSE IF root \in FsDirs /\ root \notin Unreadable
    THEN {root} \cup UNION {WalkDir(e) : e \in Children(root)}
    ELSE {root}

\* l.45: filepath.Abs fails for a relative path when the working directory
\* cannot be determined
AbsFails(dir) == ~HasPrefix(dir, <<"/">>)

\* l.57: d.IsDir()
IsDir(path) == path \in FsDirs

\* l.59: fileWatcher.Add fails for a directory without read permission
AddFails(path) == path \in Unreadable

create_watcher_filesToo(dirs) ==
    [open |-> TRUE,
     dirs |-> {p \in UNION {WalkDir(r) : r \in {d \in dirs : ~AbsFails(d)}} :
                  ~AddFails(p)}]

\* l.39-68: the watcher with every directory of the walks that could be added
create_watcher(dirs) ==
    [open |-> TRUE,
     dirs |-> {p \in UNION {WalkDir(r) : r \in {d \in dirs : ~AbsFails(d)}} :
                  IsDir(p) /\ ~AddFails(p)}]

Close(w) == [w EXCEPT !.open = FALSE]

----------------------------------------------------------------------------
(* map helpers *)

MapPut(m, k, v) == [x \in (DOMAIN m) \cup {k} |-> IF x = k THEN v ELSE m[x]]

MapDelete(m, k) == [x \in (DOMAIN m) \ {k} |-> m[x]]

EmptyMap == [x \in {} |-> 0]

NoEvent == [src |-> "none", name |-> <<>>, op |-> {}, stat |-> "none"]

\* debounceMutex (l.26): unlocked, locked by the goroutine of Run, or locked by
\* the callback of timer t
Free == [by |-> "none", timer |-> 0]
ByLoop == [by |-> "loop", timer |-> 0]
ByTimer(t) == [by |-> "timer", timer |-> t]

\* the callbacks standing between the return of UploadFile (l.174) and their
\* cleanup (l.181).  The return of UploadFile touches nothing that is shared,
\* so a step taken by anyone else at that point is the same as that step taken
\* before the return: the model lets the cleanup follow at once.  Where the
\* cleanup is followed through its lock, "locked" is the callback between
\* l.181 and l.183.
Returned(tms) == {t \in 1..Len(tms) : tms[t].st \in {"failed", "succeeded", "locked"}}

----------------------------------------------------------------------------
(* Run, l.70-113 *)

NotExited == [exited |-> FALSE, code |-> 0, cause |-> ""]

Exited(code, cause) == [exited |-> TRUE, code |-> code, cause |-> cause]

Init ==
    /\ loopPc = "start"
    /\ config = DefaultConfig
    /\ watchers = <<>>
    /\ fileWatcher = 0
    /\ deferredWatcher = 0
    /\ configWatcherOpen = FALSE
    /\ configWatched = {}
    /\ exitStatus = NotExited
    /\ sigChan = 0
    /\ debounceTimers = EmptyMap
    /\ timers = <<>>
    /\ now = 0
    /\ lastEvent = NoEvent
    /\ debounceMutex = Free
    /\ client = NoClient

ensure_neverStops(err, stopOnErr) == FALSE

\* l.29-36: ensure(err, msg, stopOnErr) ends the process with status 1 when
\* there is an error and stopOnErr is set; TRUE when it does
ensure(err, stopOnErr) == err /\ stopOnErr

\* the calls of l.70-113 that can fail, apart from InitConfig
StartupCalls == {"NewConfigWatcher", "GetConfigDir", "GetConfigPath", "MkdirAll",
                 "AddConfigDir", "NewFileWatcher"}

\* the ensure that ends the process during l.70-113, "" when none does:
\* l.75, l.80, l.83, and l.41 in create_watcher called from l.110
StartupExit(fails) ==
    IF ensure("NewConfigWatcher" \in fails, TRUE) THEN "NewConfigWatcher"
    ELSE IF ensure("GetConfigDir" \in fails, TRUE) THEN "GetConfigDir"
    ELSE IF ensure("GetConfigPath" \in fails, TRUE) THEN "GetConfigPath"
    ELSE IF ensure("NewFileWatcher" \in fails, TRUE) THEN "NewFileWatcher"
    ELSE ""

\* the configurations found on disk at startup
StartupDiskStates == {Malformed, Readable(ConfigAB)}

\* l.70-113 in one step, to the first pass of the loop or to os.Exit(1).
\* fails are the calls that return an error, disk is what InitConfig finds.
\* The failures of MkdirAll (l.88), configWatcher.Add (l.93) and InitConfig
\* (l.105) are logged only.
Startup(fails, disk) ==
    /\ loopPc = "start"
    /\ fails \subseteq StartupCalls
    /\ disk \in StartupDiskStates
    /\ lastEvent' = [src |-> "startup", name |-> <<>>, op |-> fails, stat |-> disk.status]
    /\ configWatcherOpen' = ("NewConfigWatcher" \notin fails)
    /\ IF StartupExit(fails) # ""
       THEN /\ loopPc' = "exited"
            /\ exitStatus' = Exited(1, StartupExit(fails))
            /\ config' = IF StartupExit(fails) = "NewFileWatcher"
                          THEN InitConfig(config, disk) ELSE config
            /\ configWatched' = IF StartupExit(fails) = "NewFileWatcher" /\ "AddConfigDir" \notin fails
                                 THEN {configDir} ELSE {}
            /\ UNCHANGED <<watchers, fileWatcher, deferredWatcher>>
       ELSE /\ loopPc' = "continue"
            /\ configWatched' = IF "AddConfigDir" \in fails THEN {} ELSE {configDir}
            /\ config' = InitConfig(config, disk)
            /\ watchers' = <<create_watcher(GetWatchDirs(InitConfig(config, disk)))>>
            /\ fileWatcher' = 1
            /\ deferredWatcher' = 1
            /\ UNCHANGED exitStatus
    /\ UNCHANGED <<debounceTimers, timers, now, sigChan>>
    /\ UNCHANGED <<client, debounceMutex>>

----------------------------------------------------------------------------
(* case event := <-configWatcher.Events, l.118-139 *)

ReloadReached_writeOnly(name, op) ==
    /\ Base(name) = configFileName
    /\ Has(op, {"Write"})

\* l.123-128: the event is for the configuration file and is a write or a create
ReloadReached(name, op) ==
    /\ Base(name) = configFileName
    /\ Has(op, {"Write"}) \/ Has(op, {"Create"})

ConfigEvent_cancelsPending(name, op, disk) ==
    /\ loopPc = "select"
    /\ Returned(timers) = {}
    /\ configWatcherOpen
    /\ Dir(name) \in configWatched
    /\ disk \in (IF ReloadReached(name, op) THEN DiskStates ELSE {NotRead})
    /\ lastEvent' = [src |-> "config", name |-> name, op |-> op, stat |-> disk.status]
    /\ IF ~ReloadReached(name, op)
       THEN /\ loopPc' = "continue"
            /\ UNCHANGED <<config, watchers, timers, debounceTimers>>
       ELSE IF InitConfigFails(disk)
       THEN /\ loopPc' = "continue"
            /\ UNCHANGED <<config, watchers, timers, debounceTimers>>
       ELSE /\ Len(watchers) < MaxWatchers
            /\ config' = InitConfig(config, disk)
            /\ watchers' = [watchers EXCEPT ![fileWatcher] = Close(@)]
            /\ timers' = [t \in 1..Len(timers) |->
                            IF timers[t].st = "armed"
                            THEN [timers[t] EXCEPT !.st = "stopped"]
                            ELSE timers[t]]
            /\ debounceTimers' = EmptyMap
            /\ loopPc' = "rebuild"
    /\ UNCHANGED <<fileWatcher, deferredWatcher, configWatcherOpen, configWatched, exitStatus, sigChan,
                   now>>
    /\ UNCHANGED <<client, debounceMutex>>

\* disk is what InitConfig finds, when it is called; on success the watcher is
\* closed (l.136) and Run goes on to l.137
ConfigEvent(name, op, disk) ==
    /\ loopPc = "select"
    /\ Returned(timers) = {}
    /\ configWatcherOpen
    /\ Dir(name) \in configWatched
    /\ disk \in (IF ReloadReached(name, op) THEN DiskStates ELSE {NotRead})
    /\ lastEvent' = [src |-> "config", name |-> name, op |-> op, stat |-> disk.status]
    /\ IF ~ReloadReached(name, op)
       THEN /\ loopPc' = "continue"
            /\ UNCHANGED <<config, watchers>>
       ELSE IF InitConfigFails(disk)
       THEN /\ loopPc' = "continue"
            /\ UNCHANGED <<config, watchers>>
       ELSE /\ Len(watchers) < MaxWatchers
            /\ config' = InitConfig(config, disk)
            /\ watchers' = [watchers EXCEPT ![fileWatcher] = Close(@)]
            /\ loopPc' = "rebuild"
    /\ UNCHANGED <<fileWatcher, deferredWatcher, configWatcherOpen, configWatched, exitStatus, sigChan,
                   debounceTimers, timers, now>>
    /\ UNCHANGED <<client, debounceMutex>>

RebuildWatcher_addsToOld(newWatcherErr) ==
    /\ loopPc = "rebuild"
    /\ Returned(timers) = {}
    /\ IF ensure(newWatcherErr, TRUE)
       THEN /\ loopPc' = "exited"
            /\ exitStatus' = Exited(1, "NewFileWatcher")
            /\ UNCHANGED <<watchers, fileWatcher>>
       ELSE /\ watchers' = Append(watchers, [create_watcher(GetWatchDirs(config)) EXCEPT
                                              !.dirs = @ \cup watchers[fileWatcher].dirs])
            /\ fileWatcher' = Len(watchers) + 1
            /\ loopPc' = "continue"
            /\ UNCHANGED exitStatus
    /\ UNCHANGED <<config, deferredWatcher, configWatcherOpen, configWatched, sigChan,
                   debounceTimers, timers, now, lastEvent>>
    /\ UNCHANGED <<client, debounceMutex>>

RebuildWatcher_keepsOld(newWatcherErr) ==
    /\ loopPc = "rebuild"
    /\ Returned(timers) = {}
    /\ IF ensure(newWatcherErr, TRUE)
       THEN /\ loopPc' = "exited"
            /\ exitStatus' = Exited(1, "NewFileWatcher")
            /\ UNCHANGED <<watchers, fileWatcher>>
       ELSE /\ watchers' = Append(watchers, create_watcher(GetWatchDirs(config)))
            /\ fileWatcher' = fileWatcher
            /\ loopPc' = "continue"
            /\ UNCHANGED exitStatus
    /\ UNCHANGED <<config, deferredWatcher, configWatcherOpen, configWatched, sigChan,
                   debounceTimers, timers, now, lastEvent>>
    /\ UNCHANGED <<client, debounceMutex>>

\* l.137: fileWatcher = create_watcher(config.GetWatchDirs()); when
\* fsnotify.NewWatcher fails in it, ensure ends the process (l.40-41)
RebuildWatcher(newWatcherErr) ==
    /\ loopPc = "rebuild"
    /\ Returned(timers) = {}
    /\ IF ensure(newWatcherErr, TRUE)
       THEN /\ loopPc' = "exited"
            /\ exitStatus' = Exited(1, "NewFileWatcher")
            /\ UNCHANGED <<watchers, fileWatcher>>
       ELSE /\ watchers' = Append(watchers, create_watcher(GetWatchDirs(config)))
            /\ fileWatcher' = Len(watchers) + 1
            /\ loopPc' = "continue"
            /\ UNCHANGED exitStatus
    /\ UNCHANGED <<config, deferredWatcher, configWatcherOpen, configWatched, sigChan,
                   debounceTimers, timers, now, lastEvent>>
    /\ UNCHANGED <<client, debounceMutex>>

----------------------------------------------------------------------------
(* case event := <-fileWatcher.Events, l.141-186 *)

IsTemp_swpForgotten(name) == HasSuffix(name, <<"~">>)

\* l.149: backup and temporary files
IsTemp(name) == HasSuffix(name, <<"~">>) \/ HasSuffix(name, <<".", "s", "w", "p">>)

\* os.Stat is called at l.154 only, for a write event that passed l.149
StatCalled(name, op) == Has(op, {"Write"}) /\ ~IsTemp(name)

Accepted_dirsToo(name, op, stat) == StatCalled(name, op)

\* the filters of l.147-156
Accepted(name, op, stat) == StatCalled(name, op) /\ ~(stat = "dir")

\* timer.Stop(): prevents the callback unless the timer has fired already
Stop(tm) == IF tm.st = "armed" THEN [tm EXCEPT !.st = "stopped"] ELSE tm

StopExisting_stopsAll(tms, m, name) ==
    [t \in 1..Len(tms) |-> IF t \in {m[n] : n \in DOMAIN m} THEN Stop(tms[t]) ELSE tms[t]]

\* l.162-164
StopExisting(tms, m, name) ==
    IF name \in DOMAIN m THEN [tms EXCEPT ![m[name]] = Stop(@)] ELSE tms

\* every accepted write of a path made a timer: the timers of the path
TimersOf(tms, name) == {t \in 1..Len(tms) : tms[t].name = name}

\* the burst an accepted write at time at belongs to: that of the previous
\* accepted write of the path when it came less than the quiet period before
BurstOf(tms, name, at) ==
    LET ts == TimersOf(tms, name)
        prev == CHOOSE t \in ts : \A u \in ts : u <= t
    IN IF ts = {} THEN 1
       ELSE IF at - tms[prev].set < debounceDelay THEN tms[prev].burst
       ELSE tms[prev].burst + 1

\* time.AfterFunc(debounceDelay, func() {...})
AfterFunc(name, burst) ==
    [name |-> name, set |-> now, deadline |-> now + debounceDelay, st |-> "armed",
     burst |-> burst]

FileEvent_waitsForUpload(name, op, stat) ==
    /\ loopPc = "select"
    /\ Returned(timers) = {}
    /\ watchers[fileWatcher].open
    /\ Dir(name) \in watchers[fileWatcher].dirs
    /\ stat \in (IF StatCalled(name, op) THEN Stat(name) ELSE {"none"})
    /\ lastEvent' = [src |-> "file", name |-> name, op |-> op, stat |-> stat]
    /\ IF Accepted(name, op, stat)
       THEN /\ Len(timers) < MaxTimers
            /\ \A t \in TimersOf(timers, name) : timers[t].st # "uploading"
            /\ timers' = Append(StopExisting(timers, debounceTimers, name),
                                AfterFunc(name, BurstOf(timers, name, now)))
            /\ debounceTimers' = MapPut(debounceTimers, name, Len(timers) + 1)
       ELSE UNCHANGED <<timers, debounceTimers>>
    /\ loopPc' = "continue"
    /\ UNCHANGED <<config, watchers, fileWatcher, deferredWatcher, configWatcherOpen, configWatched, exitStatus, sigChan,
                   now>>
    /\ UNCHANGED <<client, debounceMutex>>

\* l.141-186: one event of the watch set, filtered, and its timer set under
\* the lock
FileEvent(name, op, stat) ==
    /\ loopPc = "select"
    /\ Returned(timers) = {}
    /\ watchers[fileWatcher].open
    /\ Dir(name) \in watchers[fileWatcher].dirs
    /\ stat \in (IF StatCalled(name, op) THEN Stat(name) ELSE {"none"})
    /\ lastEvent' = [src |-> "file", name |-> name, op |-> op, stat |-> stat]
    /\ IF Accepted(name, op, stat)
       THEN /\ Len(timers) < MaxTimers
            /\ timers' = Append(StopExisting(timers, debounceTimers, name),
                                AfterFunc(name, BurstOf(timers, name, now)))
            /\ debounceTimers' = MapPut(debounceTimers, name, Len(timers) + 1)
       ELSE UNCHANGED <<timers, debounceTimers>>
    /\ loopPc' = "continue"
    /\ UNCHANGED <<config, watchers, fileWatcher, deferredWatcher, configWatcherOpen, configWatched, exitStatus, sigChan,
                   now>>
    /\ UNCHANGED <<client, debounceMutex>>

----------------------------------------------------------------------------
(* the callback of time.AfterFunc, l.166-184 *)

\* the timer fires; l.168-174: NewClient, then the call of UploadFile begins
Fire(t) ==
    /\ loopPc \in {"select", "rebuild"}
    /\ Returned(timers) = {}
    /\ t \in 1..Len(timers)
    /\ timers[t].st = "armed"
    /\ now >= timers[t].deadline
    /\ timers' = [timers EXCEPT ![t] =
                    IF NewClientFails(config)
                    THEN [@ EXCEPT !.st = "noclient"]
                    ELSE [@ EXCEPT !.st = "uploading"]]
    /\ UNCHANGED <<loopPc, config, watchers, fileWatcher, deferredWatcher, configWatcherOpen, configWatched, exitStatus, sigChan,
                   debounceTimers, now, lastEvent>>
    /\ UNCHANGED <<client, debounceMutex>>

\* l.174-178: UploadFile returns, with or without an error, which is logged
UploadReturns(t, result) ==
    /\ result \in {"ok", "err"}
    /\ loopPc \in {"select", "rebuild"}
    /\ Returned(timers) = {}
    /\ t \in 1..Len(timers)
    /\ timers[t].st = "uploading"
    /\ timers' = [timers EXCEPT ![t] =
                    [@ EXCEPT !.st = IF result = "err" THEN "failed" ELSE "succeeded"]]
    /\ UNCHANGED <<loopPc, config, watchers, fileWatcher, deferredWatcher, configWatcherOpen, configWatched, exitStatus, sigChan,
                   debounceTimers, now, lastEvent>>
    /\ UNCHANGED <<client, debounceMutex>>

Cleanup_retries(t) ==
    /\ t \in 1..Len(timers)
    /\ timers[t].st \in {"failed", "succeeded"}
    /\ timers' = [timers EXCEPT ![t] =
                    IF @.st = "failed"
                    THEN [@ EXCEPT !.st = "armed", !.deadline = now + debounceDelay]
                    ELSE [@ EXCEPT !.st = "done"]]
    /\ debounceTimers' = IF timers[t].st = "failed" THEN debounceTimers
                          ELSE MapDelete(debounceTimers, timers[t].name)
    /\ UNCHANGED <<loopPc, config, watchers, fileWatcher, deferredWatcher, configWatcherOpen, configWatched, exitStatus, sigChan,
                   now, lastEvent>>
    /\ UNCHANGED <<client, debounceMutex>>

\* l.181-183, after either outcome of the upload:
\* debounceMutex.Lock(); delete(debounceTimers, event.Name); debounceMutex.Unlock()
Cleanup(t) ==
    /\ t \in 1..Len(timers)
    /\ timers[t].st \in {"failed", "succeeded"}
    /\ timers' = [timers EXCEPT ![t] = [@ EXCEPT !.st = "done"]]
    /\ debounceTimers' = MapDelete(debounceTimers, timers[t].name)
    /\ UNCHANGED <<loopPc, config, watchers, fileWatcher, deferredWatcher, configWatcherOpen, configWatched, exitStatus, sigChan,
                   now, lastEvent>>
    /\ UNCHANGED <<client, debounceMutex>>

----------------------------------------------------------------------------
(* the other cases of the select, l.188-202 *)

FileWatcherError_returns ==
    /\ loopPc = "select"
    /\ Returned(timers) = {}
    /\ watchers[fileWatcher].open
    /\ lastEvent' = [NoEvent EXCEPT !.src = "fileErr"]
    /\ loopPc' = "returned"
    /\ UNCHANGED <<config, watchers, fileWatcher, deferredWatcher, configWatcherOpen, configWatched, exitStatus, sigChan,
                   debounceTimers, timers, now>>
    /\ UNCHANGED <<client, debounceMutex>>

\* l.188-192
FileWatcherError ==
    /\ loopPc = "select"
    /\ Returned(timers) = {}
    /\ watchers[fileWatcher].open
    /\ lastEvent' = [NoEvent EXCEPT !.src = "fileErr"]
    /\ loopPc' = "continue"
    /\ UNCHANGED <<config, watchers, fileWatcher, deferredWatcher, configWatcherOpen, configWatched, exitStatus, sigChan,
                   debounceTimers, timers, now>>
    /\ UNCHANGED <<client, debounceMutex>>

\* l.194-198
ConfigWatcherError ==
    /\ loopPc = "select"
    /\ Returned(timers) = {}
    /\ configWatcherOpen
    /\ lastEvent' = [NoEvent EXCEPT !.src = "configErr"]
    /\ loopPc' = "continue"
    /\ UNCHANGED <<config, watchers, fileWatcher, deferredWatcher, configWatcherOpen, configWatched, exitStatus, sigChan,
                   debounceTimers, timers, now>>
    /\ UNCHANGED <<client, debounceMutex>>

Signal_flushes ==
    /\ loopPc = "select"
    /\ Returned(timers) = {}
    /\ loopPc' = "returned"
    /\ watchers' = [watchers EXCEPT ![deferredWatcher] = Close(@)]
    /\ configWatcherOpen' = FALSE
    /\ lastEvent' = [NoEvent EXCEPT !.src = "signal"]
    /\ timers' = [t \in 1..Len(timers) |->
                    IF timers[t].st = "armed" THEN [timers[t] EXCEPT !.st = "uploading"]
                    ELSE timers[t]]
    /\ exitStatus' = Exited(0, "signal")
    /\ sigChan' = 0
    /\ UNCHANGED <<config, fileWatcher, deferredWatcher, configWatched, debounceTimers, now>>
    /\ UNCHANGED <<client, debounceMutex>>

Signal_ignored ==
    /\ loopPc = "select"
    /\ Returned(timers) = {}
    /\ loopPc' = "continue"
    /\ sigChan' = 0
    /\ lastEvent' = [NoEvent EXCEPT !.src = "signal"]
    /\ UNCHANGED <<config, watchers, fileWatcher, deferredWatcher, configWatcherOpen,
                   configWatched, exitStatus, debounceTimers, timers, now>>
    /\ UNCHANGED <<client, debounceMutex>>

\* l.200-202 and the deferred calls of l.76 and l.111: a signal is received
\* from sigChan, one that was buffered or one that arrives while Run waits
Signal ==
    /\ loopPc = "select"
    /\ Returned(timers) = {}
    /\ loopPc' = "returned"
    /\ watchers' = [watchers EXCEPT ![deferredWatcher] = Close(@)]
    /\ configWatcherOpen' = FALSE
    /\ lastEvent' = [NoEvent EXCEPT !.src = "signal"]
    /\ exitStatus' = Exited(0, "signal")
    /\ sigChan' = 0
    /\ UNCHANGED <<config, fileWatcher, deferredWatcher, configWatched,
                   debounceTimers, timers, now>>
    /\ UNCHANGED <<client, debounceMutex>>

\* l.119, l.142, l.189, l.195: the `!ok` of a receive, true when the channel
\* received from is closed.  The select receives from the channels of
\* configWatcher and of the watcher that fileWatcher names at that time; a
\* channel of an fsnotify watcher is closed by its Close().
ClosedChannelFound ==
    /\ loopPc = "select"
    /\ ~configWatcherOpen \/ ~watchers[fileWatcher].open

----------------------------------------------------------------------------
(* the end of a case of the select: back to the top of the for loop, l.116.
   The step reads and writes nothing that is shared, so no timer step is
   interleaved with it. *)

Continue ==
    /\ loopPc = "continue"
    /\ Returned(timers) = {}
    /\ loopPc' = "select"
    /\ lastEvent' = NoEvent
    /\ UNCHANGED <<config, watchers, fileWatcher, deferredWatcher, configWatcherOpen, configWatched, exitStatus, sigChan,
                   debounceTimers, timers, now>>
    /\ UNCHANGED <<client, debounceMutex>>

----------------------------------------------------------------------------
(* the clock *)

\* time passes; a timer that is due fires before the clock moves on
Tick ==
    /\ loopPc \in {"select", "rebuild"}
    /\ Returned(timers) = {}
    /\ \A t \in 1..Len(timers) : timers[t].st = "armed" => timers[t].deadline > now
    /\ now + TickStep <= MaxTime
    /\ now' = now + TickStep
    /\ UNCHANGED <<loopPc, config, watchers, fileWatcher, deferredWatcher, configWatcherOpen, configWatched, exitStatus, sigChan,
                   debounceTimers, timers, lastEvent>>
    /\ UNCHANGED <<client, debounceMutex>>

\* the same clock read at a finer grain: events of one burst can then be
\* handled at different instants
TickFine ==
    /\ loopPc \in {"select", "rebuild"}
    /\ Returned(timers) = {}
    /\ \A t \in 1..Len(timers) : timers[t].st = "armed" => timers[t].deadline > now
    /\ now + FineStep <= MaxTime
    /\ now' = now + FineStep
    /\ UNCHANGED <<loopPc, config, watchers, fileWatcher, deferredWatcher, configWatcherOpen, configWatched, exitStatus, sigChan,
                   debounceTimers, timers, lastEvent>>
    /\ UNCHANGED <<client, debounceMutex>>

----------------------------------------------------------------------------

Next ==
    \/ loopPc = "start" /\ \E fails \in SUBSET StartupCalls, disk \in StartupDiskStates :
          Startup(fails, disk)
    \/ loopPc = "select" /\ \E name \in ConfigEventNames, op \in Ops, disk \in DiskStates \cup {NotRead} :
          ConfigEvent(name, op, disk)
    \/ \E newWatcherErr \in BOOLEAN : RebuildWatcher(newWatcherErr)
    \/ loopPc = "select" /\ \E name \in EventPaths, op \in Ops, stat \in {"file", "dir", "err", "none"} :
          FileEvent(name, op, stat)
    \/ \E t \in 1..MaxTimers : Fire(t)
    \/ \E t \in 1..MaxTimers, result \in {"ok", "err"} : UploadReturns(t, result)
    \/ \E t \in 1..MaxTimers : Cleanup(t)
    \/ FileWatcherError
    \/ ConfigWatcherError
    \/ Signal
    \/ Continue
    \/ Tick

Spec == Init /\ [][Next]_vars

\* the program with the clock in steps of FineStep
NextFine ==
    \/ loopPc = "start" /\ \E fails \in SUBSET StartupCalls, disk \in StartupDiskStates :
          Startup(fails, disk)
    \/ loopPc = "select" /\ \E name \in ConfigEventNames, op \in Ops, disk \in DiskStates \cup {NotRead} :
          ConfigEvent(name, op, disk)
    \/ \E newWatcherErr \in BOOLEAN : RebuildWatcher(newWatcherErr)
    \/ loopPc = "select" /\ \E name \in EventPaths, op \in Ops, stat \in {"file", "dir", "err", "none"} :
          FileEvent(name, op, stat)
    \/ \E t \in 1..MaxTimers : Fire(t)
    \/ \E t \in 1..MaxTimers, result \in {"ok", "err"} : UploadReturns(t, result)
    \/ \E t \in 1..MaxTimers : Cleanup(t)
    \/ FileWatcherError
    \/ ConfigWatcherError
    \/ Signal
    \/ Continue
    \/ TickFine

SpecFine == Init /\ [][NextFine]_vars

\* l.101-102: SIGINT or SIGTERM is delivered while Run is busy or while the
\* select has other cases ready; signal.Notify puts it in the buffer of
\* sigChan (a second one finds the buffer full and is dropped)
SignalDelivered ==
    /\ loopPc \in {"select", "rebuild", "continue"}
    /\ sigChan = 0
    /\ sigChan' = 1
    /\ UNCHANGED <<loopPc, config, watchers, fileWatcher, deferredWatcher, configWatcherOpen,
                   configWatched, exitStatus, debounceTimers, timers, now, lastEvent>>
    /\ UNCHANGED <<client, debounceMutex>>

\* the receive of a buffered signal
SignalReceived == sigChan = 1 /\ Signal

NextLive == Next \/ SignalDelivered

\* The program with signals that wait in sigChan.  The goroutine of Run goes
\* on when it can (Continue, RebuildWatcher), a callback that has the result
\* of its upload goes on to its cleanup, and the select, which picks among
\* its ready cases at random, does not leave a ready case out for ever.
SpecLive ==
    /\ Init
    /\ [][NextLive]_vars
    /\ WF_vars(Continue)
    /\ WF_vars(\E newWatcherErr \in BOOLEAN : RebuildWatcher(newWatcherErr))
    /\ WF_vars(\E t \in 1..MaxTimers : Cleanup(t))
    /\ SF_vars(SignalReceived)

----------------------------------------------------------------------------
(* The critical sections of debounceMutex, l.161-185 and l.181-183, with the
   Lock and the rest in separate steps *)

\* l.141-161: an accepted write event is received and debounceMutex.Lock()
\* returns, which it does when the mutex is free
FileEventLock(name, op, stat) ==
    /\ loopPc = "select"
    /\ watchers[fileWatcher].open
    /\ Dir(name) \in watchers[fileWatcher].dirs
    /\ stat \in Stat(name)
    /\ Accepted(name, op, stat)
    /\ Len(timers) < MaxTimers
    /\ debounceMutex = Free
    /\ debounceMutex' = ByLoop
    /\ lastEvent' = [src |-> "file", name |-> name, op |-> op, stat |-> stat]
    /\ loopPc' = "locked"
    /\ UNCHANGED <<config, watchers, fileWatcher, deferredWatcher, configWatcherOpen, configWatched,
                   exitStatus, sigChan, debounceTimers, timers, now, client>>

\* l.162-185: the old timer is stopped, the new one stored, and
\* debounceMutex.Unlock()
FileEventLocked ==
    /\ loopPc = "locked"
    /\ debounceMutex = ByLoop
    /\ timers' = Append(StopExisting(timers, debounceTimers, lastEvent.name),
                        AfterFunc(lastEvent.name, BurstOf(timers, lastEvent.name, now)))
    /\ debounceTimers' = MapPut(debounceTimers, lastEvent.name, Len(timers) + 1)
    /\ debounceMutex' = Free
    /\ loopPc' = "continue"
    /\ UNCHANGED <<config, watchers, fileWatcher, deferredWatcher, configWatcherOpen, configWatched,
                   exitStatus, sigChan, now, lastEvent, client>>

CleanupLock_skipped(t) ==
    /\ t \in 1..Len(timers)
    /\ timers[t].st \in {"failed", "succeeded"}
    /\ timers' = [timers EXCEPT ![t] = [@ EXCEPT !.st = "locked"]]
    /\ UNCHANGED <<loopPc, config, watchers, fileWatcher, deferredWatcher, configWatcherOpen, configWatched,
                   exitStatus, sigChan, debounceTimers, now, lastEvent, client, debounceMutex>>

\* l.181: debounceMutex.Lock() of the callback returns
CleanupLock(t) ==
    /\ t \in 1..Len(timers)
    /\ timers[t].st \in {"failed", "succeeded"}
    /\ debounceMutex = Free
    /\ debounceMutex' = ByTimer(t)
    /\ timers' = [timers EXCEPT ![t] = [@ EXCEPT !.st = "locked"]]
    /\ UNCHANGED <<loopPc, config, watchers, fileWatcher, deferredWatcher, configWatcherOpen, configWatched,
                   exitStatus, sigChan, debounceTimers, now, lastEvent, client>>

\* l.182-183: delete(debounceTimers, event.Name); debounceMutex.Unlock()
CleanupLocked(t) ==
    /\ t \in 1..Len(timers)
    /\ timers[t].st = "locked"
    /\ debounceTimers' = MapDelete(debounceTimers, timers[t].name)
    /\ timers' = [timers EXCEPT ![t] = [@ EXCEPT !.st = "done"]]
    /\ debounceMutex' = Free
    /\ UNCHANGED <<loopPc, config, watchers, fileWatcher, deferredWatcher, configWatcherOpen, configWatched,
                   exitStatus, sigChan, now, lastEvent, client>>

\* The configuration stays the one read at startup: a reload uses neither the
\* mutex nor the registry.
NextLock ==
    \/ loopPc = "start" /\ \E fails \in SUBSET StartupCalls, disk \in StartupDiskStates :
          Startup(fails, disk)
    \/ loopPc = "select" /\ \E name \in EventPaths, op \in Ops, stat \in {"file", "dir", "err", "none"} :
          ~Accepted(name, op, stat) /\ FileEvent(name, op, stat)
    \/ loopPc = "select" /\ \E name \in EventPaths, op \in Ops, stat \in {"file", "err"} :
          FileEventLock(name, op, stat)
    \/ FileEventLocked
    \/ \E t \in 1..MaxTimers : Fire(t)
    \/ \E t \in 1..MaxTimers, result \in {"ok", "err"} : UploadReturns(t, result)
    \/ \E t \in 1..MaxTimers : CleanupLock(t)
    \/ \E t \in 1..MaxTimers : CleanupLocked(t)
    \/ FileWatcherError
    \/ ConfigWatcherError
    \/ Signal
    \/ Continue
    \/ Tick

\* A goroutine that holds the mutex is runnable and goes on to its Unlock.
SpecLock ==
    /\ Init
    /\ [][NextLock]_vars
    /\ WF_vars(FileEventLocked)
    /\ WF_vars(\E t \in 1..MaxTimers : CleanupLocked(t))

----------------------------------------------------------------------------
(* The commands that configure the API and build a client *)

ApiKeys == {"", "k"}

\* a configuration as `sfs config set` can have left it
ClientConfigs ==
    {[DefaultConfig EXCEPT !.api_url = u, !.api_key = k] : u \in URLs \cup {DefaultURL}, k \in ApiKeys}

InitClient ==
    /\ Init
    /\ config \in ClientConfigs
    /\ client = NoClient

daemonVars == <<loopPc, watchers, fileWatcher, deferredWatcher, configWatcherOpen, configWatched,
                exitStatus, sigChan, debounceTimers, timers, now, lastEvent, debounceMutex>>

\* config.Set(key, value)
Set(key, value) ==
    /\ config' = [config EXCEPT ![key] = value]
    /\ UNCHANGED <<client, daemonVars>>

\* client, err := api.NewClient()
CallNewClient ==
    /\ client' = NewClient(config)
    /\ UNCHANGED <<config, daemonVars>>

NextClient ==
    \/ \E u \in URLs : Set("api_url", u)
    \/ \E k \in ApiKeys : Set("api_key", k)
    \/ CallNewClient

SpecClient == InitClient /\ [][NextClient]_vars

----------------------------------------------------------------------------
(* Properties *)

\* the callback of the timer has called UploadFile
UploadCalled(tm) == tm.st \in {"uploading", "failed", "succeeded", "done"}

\* the timers of a path that are scheduled and neither fired nor stopped
Armed(name) == {t \in 1..Len(timers) : timers[t].name = name /\ timers[t].st = "armed"}

\* C1: the write events of one path that follow each other by less than the
\* quiet period (one burst) lead to one upload call, made for the last event
\* of the burst: no two timers of the same burst call UploadFile, and a timer
\* that has called it is not followed by a later event of its burst.
C1_OneUploadPerBurst ==
    ~\E t, u \in 1..Len(timers) :
        /\ t < u
        /\ timers[t].name = timers[u].name
        /\ timers[t].burst = timers[u].burst
        /\ UploadCalled(timers[t])

\* C2: at every instant a path has at most one deferred upload that is
\* armed, that is scheduled and neither fired nor cancelled.
C2_AtMostOnePendingPerPath ==
    \A name \in EventPaths : Cardinality(Armed(name)) <= 1

\* C3: a step that closes a Watch Set while Run goes on is taken only when
\* the replacement is there: another Watch Set is open after the step.
C3_NewBeforeOldCloses ==
    [][\A w \in 1..Len(watchers) :
          (watchers[w].open /\ ~watchers'[w].open /\ loopPc' # "returned")
              => \E v \in 1..Len(watchers') : v # w /\ watchers'[v].open]_vars

\* C4: from startup to shutdown a Watch Set is active in every state, and
\* every directory that the old Watch Set had and the configuration still has
\* is in an open Watch Set, so that a write under it is reported.
C4_NoCoverageGap ==
    loopPc \in {"select", "rebuild", "continue"} =>
        /\ \E w \in 1..Len(watchers) : watchers[w].open
        /\ \A d \in watchers[fileWatcher].dirs :
              (\E r \in config.watch_dirs : d = r \/ HasPrefix(d, r \o <<"/">>))
                 => \E w \in 1..Len(watchers) : watchers[w].open /\ d \in watchers[w].dirs

\* C5: once Run has returned, the config monitor and every Watch Set made
\* during the run are closed.
C5_AllClosedAtReturn ==
    loopPc = "returned" =>
        /\ ~configWatcherOpen
        /\ \A w \in 1..Len(watchers) : ~watchers[w].open

\* C6: a deferred action that has fired and ended, whatever its outcome, has
\* no entry left in the registry.
C6_FiredEntryRemoved ==
    \A name \in DOMAIN debounceTimers :
        timers[debounceTimers[name]].st \notin {"done", "noclient"}

\* C7: once a reload has replaced the watch directories {A,B} by {B,C}, the
\* active Watch Set has the directories of B and C and no other; every write
\* event the loop accepts from then on is for a file under B or C, and a
\* write event for the file under C schedules its upload.
C7_AfterReloadBC ==
    [][(/\ loopPc = "select"
        /\ fileWatcher > 1
        /\ watchers[1].dirs = {DirA, DirAS, DirAST, DirB}
        /\ config.watch_dirs = {DirB, DirC})
       => (/\ watchers[fileWatcher].open
           /\ watchers[fileWatcher].dirs = {DirB, DirC}
           /\ Len(timers') > Len(timers)
                => Dir(timers'[Len(timers')].name) \in {DirB, DirC}
           /\ (lastEvent'.src = "file" /\ lastEvent'.name = FileC /\ lastEvent'.op = {"Write"})
                => (/\ Len(timers') = Len(timers) + 1
                    /\ timers'[Len(timers')].name = FileC
                    /\ timers'[Len(timers')].st = "armed"
                    /\ debounceTimers'[FileC] = Len(timers')))]_vars

\* C7, the case: after the reload from {A,B} to {B,C} a file under C is being uploaded.
C7_Witness ==
    /\ fileWatcher > 1
    /\ watchers[1].dirs = {DirA, DirAS, DirAST, DirB}
    /\ config.watch_dirs = {DirB, DirC}
    /\ \E t \in 1..Len(timers) : timers[t].name = FileC /\ timers[t].st = "uploading"

\* C8: when the reload of the configuration fails, Run stays in the loop and
\* the configuration in memory and the Watch Set are what they were: nothing
\* is closed, nothing is built.
C8_FailedReloadKeepsAll ==
    [][(/\ loopPc = "select"
        /\ lastEvent'.src = "config"
        /\ lastEvent'.stat = "malformed")
       => (/\ loopPc' = "continue"
           /\ config' = config
           /\ watchers' = watchers
           /\ fileWatcher' = fileWatcher)]_vars

\* C8, the case: a reload has just failed while directories are watched.
C8_Witness ==
    /\ loopPc = "continue"
    /\ lastEvent.src = "config"
    /\ lastEvent.stat = "malformed"
    /\ watchers[fileWatcher].dirs # {}

\* C9: a watch event for a name ending in ~ or .swp, or of a kind without
\* write, makes no timer and no registry entry; no timer, hence no upload,
\* is ever for such a name.
C9_FilteredNeverScheduled ==
    [][/\ (/\ loopPc = "select"
           /\ lastEvent'.src = "file"
           /\ \/ lastEvent'.name \in {FileBackup, FileSwap}
              \/ "Write" \notin lastEvent'.op)
          => (timers' = timers /\ debounceTimers' = debounceTimers)
       /\ \A t \in 1..Len(timers') : timers'[t].name \notin {FileBackup, FileSwap}]_vars

\* C9, the case: a write event for a backup file has just been handled.
C9_Witness ==
    /\ loopPc = "continue"
    /\ lastEvent.src = "file"
    /\ lastEvent.name = FileBackup
    /\ lastEvent.op = {"Write"}

\* C10: a write event whose name is a directory when it is handled makes no
\* timer and no registry entry, so that no upload follows from it.
C10_DirectoryNeverScheduled ==
    [][(/\ loopPc = "select"
        /\ lastEvent'.src = "file"
        /\ lastEvent'.stat = "dir")
       => (timers' = timers /\ debounceTimers' = debounceTimers)]_vars

\* C10, the case: a write event for a directory has just been handled.
C10_Witness ==
    /\ loopPc = "continue"
    /\ lastEvent.src = "file"
    /\ lastEvent.name = DirAS
    /\ "Write" \in lastEvent.op
    /\ lastEvent.stat = "dir"

\* C11: a config-monitor event makes Run call InitConfig exactly when the
\* base name of the event is the name of the configuration file and its
\* operation has the create or the write bit; the handling of any other
\* config-monitor event changes neither the configuration, nor the Watch
\* Set, nor the registry and its timers.
C11_ReloadIffConfigFileWritten ==
    [][(loopPc = "select" /\ lastEvent'.src = "config")
       => LET forConfigFile == Base(lastEvent'.name) = <<"c">>
              createOrWrite == lastEvent'.op \cap {"Create", "Write"} # {}
              initConfigCalled == lastEvent'.stat # "none"
          IN /\ initConfigCalled <=> (forConfigFile /\ createOrWrite)
             /\ ~(forConfigFile /\ createOrWrite)
                  => /\ config' = config
                     /\ watchers' = watchers
                     /\ fileWatcher' = fileWatcher
                     /\ debounceTimers' = debounceTimers
                     /\ timers' = timers]_vars

\* C11, the case: a create event for the configuration file has reloaded
\* the configuration and closed the Watch Set.
C11_Witness ==
    /\ loopPc = "rebuild"
    /\ lastEvent.src = "config"
    /\ lastEvent.op = {"Create"}
    /\ config = ConfigBC

\* C12: the handling of an error notification of the Watch Set or of the
\* config monitor leaves Run in the loop, with the Watch Set, the
\* configuration, the registry and the timers as they were.
C12_ErrorKeepsLoopRunning ==
    [][(loopPc = "select" /\ lastEvent'.src \in {"fileErr", "configErr"})
       => (/\ loopPc' = "continue"
           /\ watchers' = watchers
           /\ fileWatcher' = fileWatcher
           /\ configWatcherOpen' = configWatcherOpen
           /\ config' = config
           /\ debounceTimers' = debounceTimers
           /\ timers' = timers)]_vars

\* C12, the case: an error notification of the Watch Set has been handled
\* while an upload was pending.
C12_Witness ==
    /\ loopPc = "continue"
    /\ lastEvent.src = "fileErr"
    /\ debounceTimers # EmptyMap
    /\ watchers[fileWatcher].open

\* C13: the handling of a termination signal makes Run return in that one
\* step, whatever uploads are pending, and changes no timer and no registry
\* entry; once Run has returned no timer fires and no upload is called.
C13_SignalFiresNoUpload ==
    [][/\ (loopPc = "select" /\ lastEvent'.src = "signal")
          => (/\ loopPc' = "returned"
              /\ timers' = timers
              /\ debounceTimers' = debounceTimers)
       /\ loopPc = "returned"
          => (timers' = timers /\ debounceTimers' = debounceTimers)]_vars

\* C13, the case: Run has returned on a signal while the uploads of two
\* paths were scheduled and had not fired.
C13_Witness ==
    /\ loopPc = "returned"
    /\ lastEvent.src = "signal"
    /\ \E t, u \in 1..Len(timers) :
          /\ timers[t].name # timers[u].name
          /\ timers[t].st = "armed"
          /\ timers[u].st = "armed"

\* C14: an upload is launched no sooner than the quiet period after the last
\* write event of its burst: when the callback of a timer goes on to the
\* upload, every write event of the path in the same burst, the later ones
\* included, is at least debounceDelay old.
C14_LaunchedAfterLastEventOfBurst ==
    [][\A t \in 1..Len(timers) :
          (timers[t].st = "armed" /\ timers'[t].st = "uploading")
             => \A u \in TimersOf(timers, timers[t].name) :
                   timers[u].burst = timers[t].burst
                      => now >= timers[u].set + debounceDelay]_vars

\* C15: per path the uploads are launched in the order of their write
\* events, one for each debounce window and after the window has closed:
\* when the callback of a timer goes on to the upload, no timer of a later
\* write event of the path has fired before it, no other timer of its window
\* has called or will call the uploader, and no later write event of the
\* path is still waiting for its quiet period to end.
C15_OrderedOnePerWindow ==
    [][\A t \in 1..Len(timers) :
          (timers[t].st = "armed" /\ timers'[t].st = "uploading")
             => \A u \in TimersOf(timers, timers[t].name) \ {t} :
                   /\ u > t => timers[u].st \in {"armed", "stopped"}
                   /\ timers[u].burst = timers[t].burst => timers[u].st = "stopped"
                   /\ u > t => timers[u].st # "armed"]_vars

\* C16: the process ends with a status other than 0 only when the creation
\* of an fsnotify watcher has failed.
C16_OnlyWatcherCreationFatal ==
    (exitStatus.exited /\ exitStatus.code # 0)
        => exitStatus.cause \in {"NewConfigWatcher", "NewFileWatcher"}

\* C16, amended: the process ends with a status other than 0 only when the
\* creation of an fsnotify watcher has failed, at startup or in a reload, or
\* when the config directory or the config path could not be resolved;
\* startup ends the process exactly when one of these four calls fails, and
\* goes on to the loop whatever else fails (MkdirAll, the subscription of
\* the config directory, InitConfig).
C16_FatalConditions ==
    /\ (exitStatus.exited /\ exitStatus.code # 0)
          => /\ loopPc = "exited"
             /\ exitStatus.cause \in {"NewConfigWatcher", "GetConfigDir", "GetConfigPath",
                                       "NewFileWatcher"}
    /\ lastEvent.src = "startup"
          => /\ loopPc \in {"continue", "exited"}
             /\ loopPc = "exited" <=>
                   lastEvent.op \cap {"NewConfigWatcher", "GetConfigDir", "GetConfigPath",
                                      "NewFileWatcher"} # {}
    /\ loopPc = "exited" => (exitStatus.exited /\ exitStatus.code = 1)

\* C16, the case: Run has reached the loop although the config directory
\* could be neither created nor subscribed and the configuration file could
\* not be read.
C16_Witness ==
    /\ loopPc = "continue"
    /\ lastEvent.src = "startup"
    /\ lastEvent.op = {"MkdirAll", "AddConfigDir"}
    /\ lastEvent.stat = "malformed"
    /\ ~exitStatus.exited

\* C17: every call of create_watcher, at startup and in a reload, returns
\* an open watcher that becomes the Watch Set, whatever the roots: each
\* root that is a readable directory is watched although other roots do not
\* exist, cannot be resolved or are no directory; under a root with an
\* unreadable subdirectory the readable subdirectories are watched, the
\* unreadable one and what is below it are not; with no root that is a
\* directory the watcher is returned without directories.
C17_BadRootsAndEntriesSkipped ==
    [][Len(watchers') > Len(watchers)
       => LET w == watchers'[Len(watchers')]
              roots == config'.watch_dirs
          IN /\ w.open
             /\ fileWatcher' = Len(watchers')
             /\ loopPc' = "continue"
             /\ \A r \in roots \cap {DirA, DirB, DirC} : r \in w.dirs
             /\ w.dirs \cap {DirN, DirRel, DirAU, DirAUD} = {}
             /\ DirA \in roots => (DirAS \in w.dirs /\ DirAST \in w.dirs)
             /\ roots \subseteq {DirN, DirRel, FileA} => w.dirs = {}]_vars

\* C17, the case: the Watch Set of startup, built from the roots /a, /b and
\* the missing /n, has /b and the readable directories of /a beside the
\* unreadable /a/u; the reload to roots of which none is a directory has
\* returned an open watcher without directories.
C17_Witness ==
    /\ loopPc = "continue"
    /\ Len(watchers) = 2
    /\ watchers[1].dirs = {DirA, DirAS, DirAST, DirB}
    /\ config.watch_dirs = {DirN, DirRel, FileA}
    /\ watchers[2] = [open |-> TRUE, dirs |-> {}]

C19_FailedUploadNotRetried ==
    [][/\ \A t \in 1..Len(timers) :
             /\ timers[t].st # "armed" => timers'[t].st # "armed"
             /\ timers[t].st \notin {"armed", "uploading"} => timers'[t].st # "uploading"
       /\ (\E t \in 1..Len(timers) :
                \/ timers[t].st = "failed"
                \/ timers[t].st = "uploading" /\ timers'[t].st = "failed")
             => /\ Len(timers') = Len(timers)
                /\ \A u \in 1..Len(timers) :
                      timers'[u].st \in {"armed", "uploading"} => timers'[u] = timers[u]
                /\ UNCHANGED <<loopPc, config, watchers, fileWatcher, configWatcherOpen,
                               configWatched, exitStatus, sigChan, lastEvent>>
       /\ Len(timers') > Len(timers)
             => /\ lastEvent'.src = "file"
                /\ "Write" \in lastEvent'.op
                /\ timers'[Len(timers')].name = lastEvent'.name]_vars

\* C19, the case: the upload for the last write event of a burst has just
\* failed; the path has no other armed timer and no other upload.
C19_Witness ==
    \E t \in 1..Len(timers) :
        /\ timers[t].st = "failed"
        /\ timers[t].name \in DOMAIN debounceTimers
        /\ debounceTimers[timers[t].name] = t
        /\ \A u \in TimersOf(timers, timers[t].name) \ {t} : timers[u].st = "stopped"
        /\ Cardinality(TimersOf(timers, timers[t].name)) > 1

\* C20: a signal that has been delivered to sigChan while Run is in the loop
\* leads to the return of Run with status 0, whatever arrives from the
\* other sources; after the return no step is taken.
C20_SignalLeadsToReturn ==
    /\ (sigChan = 1) ~> (loopPc = "returned" /\ exitStatus = Exited(0, "signal"))
    /\ [][loopPc = "returned" => UNCHANGED vars]_vars

\* C20, amended: a signal that has been delivered to sigChan while Run is in
\* the loop leads to the return of Run with status 0, whatever arrives from
\* the other sources, unless a reload handled before the signal is received
\* ends the process because the new watcher cannot be created; after the
\* return no step is taken.
C20_SignalLeadsToReturnOrFatalReload ==
    /\ (sigChan = 1) ~> \/ loopPc = "returned" /\ exitStatus = Exited(0, "signal")
                        \/ loopPc = "exited" /\ exitStatus = Exited(1, "NewFileWatcher")
    /\ [][loopPc = "returned" => UNCHANGED vars]_vars

\* C20, the case: a write event has been handled while a signal was waiting
\* in sigChan.
C20_Witness ==
    /\ sigChan = 1
    /\ loopPc = "continue"
    /\ lastEvent.src = "file"
    /\ debounceTimers # EmptyMap

\* C21: a client skips certificate verification if and only if the host of
\* its API URL is exactly localhost or 127.0.0.1
C21_SkipVerifyIffHostIsLocal ==
    client.made =>
        (client.InsecureSkipVerify <=> Hostname(client.BaseURL) \in {Localhost, Loopback})

\* C22: the removal done by the callback of a superseded timer removes no
\* registry entry but its own: it never deletes the entry installed for the
\* timer that replaced it
C22_RemovalOnlyOfOwnEntry ==
    [][\A t \in 1..Len(timers) :
          (timers[t].st \in {"failed", "succeeded"} /\ timers'[t].st = "done")
              => \A name \in DOMAIN debounceTimers :
                    name \notin DOMAIN debounceTimers' => debounceTimers[name] = t]_vars

\* an upload call is in progress
Uploading == {t \in 1..Len(timers) : timers[t].st = "uploading"}

\* C23: while an upload is in progress the loop is not held up: at the select
\* it can take the signal, an error of either watcher, a config event, and a
\* write event of any watched file, the file being uploaded included
C23_LoopNotBlockedByUpload ==
    (Uploading # {} /\ Returned(timers) = {}) =>
        /\ loopPc = "continue" => ENABLED Continue
        /\ loopPc = "rebuild" => ENABLED (\E newWatcherErr \in BOOLEAN : RebuildWatcher(newWatcherErr))
        /\ loopPc = "select" =>
            /\ ENABLED Signal
            /\ ENABLED FileWatcherError
            /\ ENABLED ConfigWatcherError
            /\ configDir \in configWatched =>
                  \A disk \in DiskStates :
                      (InitConfigFails(disk) \/ Len(watchers) < MaxWatchers) =>
                          ENABLED ConfigEvent(configPath, {"Write"}, disk)
            /\ Len(timers) < MaxTimers =>
                  \A name \in FsFiles :
                      Dir(name) \in watchers[fileWatcher].dirs =>
                          \E stat \in {"file", "none"} : ENABLED FileEvent(name, {"Write"}, stat)

\* a write of a file was taken while that file was being uploaded
C23_Witness ==
    /\ loopPc = "select"
    /\ \E t \in Uploading : \E u \in TimersOf(timers, timers[t].name) :
          /\ u > t
          /\ timers[u].st = "armed"
          /\ timers[u].set >= timers[t].deadline

\* C24: the registry changes only in a step of the holder of the lock; who
\* holds the lock is inside its critical section and not in an upload; and a
\* held lock is released
C24_LockDiscipline ==
    /\ [][debounceTimers' # debounceTimers =>
            \/ debounceMutex = ByLoop /\ loopPc = "locked"
            \/ \E t \in 1..Len(timers) :
                  debounceMutex = ByTimer(t) /\ timers[t].st = "locked" /\ timers'[t].st = "done"]_vars
    /\ [](/\ debounceMutex = ByLoop <=> loopPc = "locked"
          /\ \A t \in 1..Len(timers) : debounceMutex = ByTimer(t) <=> timers[t].st = "locked")
    /\ (debounceMutex # Free ~> debounceMutex = Free)

\* the callback of a timer wants the lock while the loop holds it
C24_Witness ==
    /\ debounceMutex = ByLoop
    /\ \E t \in 1..Len(timers) : timers[t].st \in {"failed", "succeeded"}

\* C25: no two upload calls for the same path are in progress at once
C25_OneUploadPerPath ==
    \A t, u \in Uploading : timers[t].name = timers[u].name => t = u

\* the step is the handling of a config event or the rebuild that ends it
ReloadStep ==
    \/ loopPc = "select" /\ lastEvent'.src = "config"
    \/ loopPc = "rebuild" /\ loopPc' # "rebuild"

\* the armed timers of files that the Watch Set in use does not cover
PendingOutsideWatchSet ==
    {t \in 1..Len(timers) :
        /\ timers[t].st = "armed"
        /\ Dir(timers[t].name) \notin watchers[fileWatcher].dirs}

\* C26: a step of a reload, whether it succeeds or fails, changes neither the
\* registry nor any timer; no step moves the deadline of a timer; and a timer
\* that is due fires whatever the Watch Set now is
C26_ReloadLeavesRegistry ==
    /\ [][/\ ReloadStep => UNCHANGED <<debounceTimers, timers>>
          /\ \A t \in 1..Len(timers) :
                /\ timers'[t].deadline = timers[t].deadline
                /\ timers'[t].name = timers[t].name]_vars
    /\ [](\A t \in 1..Len(timers) :
            (/\ loopPc \in {"select", "rebuild"}
             /\ Returned(timers) = {}
             /\ timers[t].st = "armed"
             /\ now >= timers[t].deadline) => ENABLED Fire(t))

\* after a reload that removed its root, the upload of a file scheduled before
\* the reload is still pending and due at the deadline it was given
C26_Witness ==
    /\ loopPc = "select"
    /\ fileWatcher > 1
    /\ DirA \notin config.watch_dirs
    /\ \E t \in PendingOutsideWatchSet :
          /\ timers[t].name = FileA
          /\ debounceTimers[FileA] = t
          /\ timers[t].deadline = timers[t].set + debounceDelay
          /\ now = timers[t].deadline

\* Run is in its loop: at the select, in a case, or between l.136 and l.137
Running == loopPc \in {"select", "rebuild", "continue"}

\* C27: the loop is left only by the handling of a termination signal or by
\* a receive that finds a channel closed; and at the select no channel of the
\* monitors in use is closed, after a reload as before it
C27_LeftOnlyBySignalOrClosedChannel ==
    /\ [][(Running /\ ~Running')
            => \/ lastEvent'.src = "signal" /\ loopPc' = "returned"
               \/ ClosedChannelFound]_vars
    /\ [](~ClosedChannelFound)

\* C27, amended: the loop is left only by the handling of a termination
\* signal, by a receive that finds a channel closed, or by the end of the
\* process when the watcher of a reload cannot be created; and at the select
\* no channel of the monitors in use is closed, after a reload as before it
C27_LeftOnlyBySignalClosedChannelOrFatalReload ==
    /\ [][(Running /\ ~Running')
            => \/ loopPc = "select" /\ lastEvent'.src = "signal" /\ loopPc' = "returned"
               \/ ClosedChannelFound
               \/ /\ loopPc = "rebuild"
                  /\ loopPc' = "exited"
                  /\ exitStatus' = Exited(1, "NewFileWatcher")]_vars
    /\ [](~ClosedChannelFound)

\* C27, the case: a reload has closed the first Watch Set and the loop waits
\* at the select on the channels of the second
C27_Witness ==
    /\ loopPc = "select"
    /\ fileWatcher = 2
    /\ ~watchers[1].open
    /\ watchers[2].open
    /\ configWatcherOpen

\* the registry entries and the timers of the paths other than name are the
\* same before and after the step
OthersUntouched(name) ==
    /\ \A q \in (DOMAIN debounceTimers \cup DOMAIN debounceTimers') \ {name} :
          /\ q \in DOMAIN debounceTimers
          /\ q \in DOMAIN debounceTimers'
          /\ debounceTimers'[q] = debounceTimers[q]
    /\ \A t \in 1..Len(timers) : timers[t].name # name => timers'[t] = timers[t]
    /\ \A t \in (Len(timers) + 1)..Len(timers') : timers'[t].name = name

\* C28: the handling of a write event of path p, and the firing and the
\* removal of p's timer, change the registry entry and the timers of p only
C28_OnlyOwnPathChanged ==
    [][/\ (loopPc = "select" /\ lastEvent'.src = "file") => OthersUntouched(lastEvent'.name)
       /\ \A t \in 1..Len(timers) : timers'[t].st # timers[t].st => OthersUntouched(timers[t].name)]_vars

\* C28, the case: a write of one path has been handled while the upload of
\* another path was pending, and that one is still registered with its timer
\* armed for the deadline it was given
C28_Witness ==
    /\ loopPc = "continue"
    /\ lastEvent.src = "file"
    /\ lastEvent.name \in DOMAIN debounceTimers
    /\ timers[debounceTimers[lastEvent.name]].set = now
    /\ \E q \in DOMAIN debounceTimers \ {lastEvent.name} :
          /\ timers[debounceTimers[q]].st = "armed"
          /\ timers[debounceTimers[q]].set < now
          /\ timers[debounceTimers[q]].deadline = timers[debounceTimers[q]].set + debounceDelay

====
